---------------------------- MODULE Spec2Model ----------------------------
(***************************************************************************)
(* ACEest fitness tracker: the persistent ledger of src/app.py (load_data, *)
(* save_data, load_user_info, save_user_info, log_workout, user_save, the  *)
(* reading views) run by concurrent request threads of one process over a  *)
(* shared file system, and the page layout of export_pdf.                  *)
(*                                                                         *)
(* Strings that the code parses (form fields) are sequences of one-        *)
(* character strings, so that strip() and int() are computed.  Floats are  *)
(* kept exact as scaled integers: calories in 1/800 kcal, page lengths in  *)
(* 1/127 pt (A4 is 297 mm = 106920/127 pt high).                           *)
(***************************************************************************)
EXTENDS Integers, Sequences, FiniteSets, TLC

(***************************************************************************)
(* Bounds of the model.                                                    *)
(***************************************************************************)
MaxEntries == 2
MaxEntriesOSError == 1
MaxRows == 40
MaxDuration == 10
MaxSessions == 2

Threads == {1, 2}
NoThread == 0

(***************************************************************************)
(* Python string helpers: str.strip() and int().                           *)
(***************************************************************************)
Digits == <<"0", "1", "2", "3", "4", "5", "6", "7", "8", "9">>

IsDigit(c) == \E i \in 1..10 : Digits[i] = c

DigitVal(c) == (CHOOSE i \in 1..10 : Digits[i] = c) - 1

IsSpace(c) == c = " "

RECURSIVE LStrip(_)
LStrip(s) == IF s # <<>> /\ IsSpace(Head(s)) THEN LStrip(Tail(s)) ELSE s

RECURSIVE RStrip(_)
RStrip(s) ==
    IF s # <<>> /\ IsSpace(s[Len(s)]) THEN RStrip(SubSeq(s, 1, Len(s) - 1)) ELSE s

strip(s) == RStrip(LStrip(s))

RECURSIVE DigitsValue(_, _)
DigitsValue(s, acc) ==
    IF s = <<>> THEN acc ELSE DigitsValue(Tail(s), 10 * acc + DigitVal(Head(s)))

AllDigits(s) == s # <<>> /\ \A i \in 1..Len(s) : IsDigit(s[i])

\* int(s): surrounding blanks are ignored, one optional sign, then digits only;
\* anything else raises ValueError (ok = FALSE).
int(s) ==
    LET t == strip(s)
        signed == t # <<>> /\ Head(t) \in {"-", "+"}
        body == IF signed THEN Tail(t) ELSE t
    IN  IF AllDigits(body)
        THEN [ok |-> TRUE,
              value |-> IF signed /\ Head(t) = "-"
                        THEN 0 - DigitsValue(body, 0)
                        ELSE DigitsValue(body, 0)]
        ELSE [ok |-> FALSE, value |-> 0]

(***************************************************************************)
(* Python dict of lists, kept as a sequence of [cat, sessions] pairs in    *)
(* insertion order (dicts and JSON objects keep key order).                *)
(***************************************************************************)
DictKeys(d) == [i \in 1..Len(d) |-> d[i].cat]

DictHas(d, c) == \E i \in 1..Len(d) : d[i].cat = c

DictIndex(d, c) == CHOOSE i \in 1..Len(d) : d[i].cat = c

DictGet(d, c) == d[DictIndex(d, c)].sessions

\* d.setdefault(c, []) : a missing key is added at the end with an empty list
DictSetDefault(d, c) ==
    IF DictHas(d, c) THEN d ELSE Append(d, [cat |-> c, sessions |-> <<>>])

\* d[c].append(e), c a key of d
ListAppend(d, c, e) ==
    [i \in 1..Len(d) |->
        IF d[i].cat = c
        THEN [cat |-> c, sessions |-> Append(d[i].sessions, e)]
        ELSE d[i]]

RECURSIVE EntryCount(_)
EntryCount(d) ==
    IF d = <<>> THEN 0 ELSE Len(Head(d).sessions) + EntryCount(Tail(d))

(***************************************************************************)
(* Module-level constants of src/app.py.                                   *)
(***************************************************************************)
DefaultCategories == <<"Warm-up", "Workout", "Cool-down">>

EmptyLedger == [i \in 1..3 |-> [cat |-> DefaultCategories[i], sessions |-> <<>>]]

\* A Python dict with string keys is a function from its keys; {} is <<>>.
DEFAULT_USER_INFO == <<>>

get(d, key, default) == IF key \in DOMAIN d THEN d[key] ELSE default

DefaultWeight == 70

\* MetTimes14 with the MET of Workout for a category MET_VALUES lacks.
MetTimes14NoDefault(category) ==
    CASE category = "Warm-up" -> 42
      [] category = "Cool-down" -> 35
      [] OTHER -> 84

\* MET_VALUES.get(category, 5.0) * 3.5, in quarters (x4)
MetTimes14(category) ==
    CASE category = "Warm-up" -> 42
      [] category = "Workout" -> 84
      [] category = "Cool-down" -> 35
      [] OTHER -> 70

\* _calc_calories in 1/800 kcal: (met * 3.5 * weight / 200.0) * duration
_calc_calories(category, duration, user) ==
    LET weight == get(user, "weight", DefaultWeight)
    IN  MetTimes14(category) * weight * duration

(***************************************************************************)
(* Files.  A file is absent, holds text that json.load rejects (corrupt,   *)
(* which includes a partially written file), or holds a JSON document.     *)
(***************************************************************************)
DATA_FILE == "data.json"
USER_FILE == "user.json"
Tmp(path) == IF path = DATA_FILE THEN "data.json.tmp" ELSE "user.json.tmp"
Paths == {DATA_FILE, USER_FILE, Tmp(DATA_FILE), Tmp(USER_FILE)}

Absent == [kind |-> "absent", doc |-> <<>>]
Corrupt == [kind |-> "corrupt", doc |-> <<>>]
Json(doc) == [kind |-> "json", doc |-> doc]

(***************************************************************************)
(* State.                                                                  *)
(*   fs            the files: canonical documents and their .tmp siblings  *)
(*   DEFAULT_DATA  the module-level dict, whose three list objects every   *)
(*                 DEFAULT_DATA.copy() shares (a shallow copy)             *)
(*   DATA_LOCK, USER_LOCK   the thread holding the lock, or NoThread       *)
(*   req           per thread: the request it runs, its position and its   *)
(*                 local variables                                         *)
(*   response      the request that has just returned: its form, its flash *)
(*                 message and what it did; Idle once it is delivered      *)
(*   clock         datetime.now(), advanced at every entry creation        *)
(*   saves_ok      number of save_data calls that returned True            *)
(*   count0        number of entries the workout ledger held at start      *)
(*   pdf           the canvas and the local variables of export_pdf's      *)
(*                 layout                                                  *)
(*   call          one call of a pure function: its arguments and, once it *)
(*                 has returned, its result                                *)
(*   workouts      the module-level dict of the in-memory variant          *)
(*                 (src/app/app.py)                                        *)
(*   reply         the last answer of the in-memory variant's add_session  *)
(***************************************************************************)
VARIABLES fs, DEFAULT_DATA, DATA_LOCK, USER_LOCK, req, response, clock,
          saves_ok, count0, pdf, call, workouts, reply

vars == <<fs, DEFAULT_DATA, DATA_LOCK, USER_LOCK, req, response, clock,
          saves_ok, count0, pdf, call, workouts, reply>>

locks == <<DATA_LOCK, USER_LOCK>>
memory == <<workouts, reply>>
history == <<count0, pdf, call, memory>>
server == <<fs, DEFAULT_DATA, locks, req, response, clock, saves_ok, count0>>

None == [none |-> TRUE]

Idle ==
    [kind |-> "idle", pc |-> "idle", form |-> <<>>, data |-> None, user |-> None,
     entry |-> None, saved |-> FALSE, flash |-> "", table_data |-> <<>>,
     pre_file |-> None, pre_load |-> None, wrote |-> FALSE, rm_failed |-> FALSE,
     reads |-> 0, errors |-> <<>>]

\* What a ledger local variable denotes: a DEFAULT_DATA.copy() shares the
\* list objects of DEFAULT_DATA, a parsed document owns its lists.
Deref(d, default) == IF d.alias THEN default ELSE d.dict

(***************************************************************************)
(* load_data / load_user_info, given the content of the file.  A file that *)
(* open() cannot read behaves as a corrupt one: both except branches       *)
(* return the default.                                                     *)
(***************************************************************************)
RECURSIVE EnsureKeys(_, _)
EnsureKeys(d, ks) ==
    IF ks = <<>> THEN d ELSE EnsureKeys(DictSetDefault(d, Head(ks)), Tail(ks))

\* load_data without the setdefault loop.
load_data_as_stored(file) ==
    IF file.kind = "absent" THEN [alias |-> TRUE, dict |-> <<>>]
    ELSE IF file.kind = "corrupt" THEN [alias |-> TRUE, dict |-> <<>>]
    ELSE [alias |-> FALSE, dict |-> file.doc]

load_data(file) ==
    IF file.kind = "absent" THEN [alias |-> TRUE, dict |-> <<>>]
    ELSE IF file.kind = "corrupt" THEN [alias |-> TRUE, dict |-> <<>>]
    ELSE [alias |-> FALSE, dict |-> EnsureKeys(file.doc, DefaultCategories)]

load_user_info(file) ==
    IF file.kind = "absent" THEN DEFAULT_USER_INFO
    ELSE IF file.kind = "corrupt" THEN DEFAULT_USER_INFO
    ELSE file.doc

\* The ledger a load_data() call made now, without I/O error, would return.
LoadedNow == Deref(load_data(fs[DATA_FILE]), DEFAULT_DATA)


(***************************************************************************)
(* Requests.  The form of a request is a dict of strings (a missing key is *)
(* a field the client did not send).                                       *)
(***************************************************************************)
LogForms ==
    {[category |-> c, exercise |-> <<"A", " ">>, duration |-> <<" ", "1", "5">>] :
        c \in {"Warm-up", "Custom"}}
    \cup {[exercise |-> <<" ">>, duration |-> <<"5">>]}
    \cup {[category |-> "Workout", exercise |-> <<"A">>, duration |-> d] :
        d \in {<<>>, <<"0">>, <<"-", "5">>, <<"a", "b", "c">>}}

Set(t, r) == req' = [req EXCEPT ![t] = r]

\* A thread moves only when no response is on its way out (see Deliver).
At(t, kind, pc) == response = Idle /\ req[t].kind = kind /\ req[t].pc = pc

Free(t) == response = Idle /\ req[t].pc = "idle"

\* A thread that is free takes a request of the given kind.
New(kind) == [Idle EXCEPT !.kind = kind]

\* return ...: the thread is free again and the response goes out.
Return(t, r, flash) ==
    /\ Set(t, Idle)
    /\ response' = [r EXCEPT !.pc = "done", !.flash = flash]

(***************************************************************************)
(* save_data / save_user_info: the places the body can be at.  path is the *)
(* canonical path and content the value handed to json.dump.  Only the     *)
(* thread that runs the body looks at the temporary file, so open() and    *)
(* json.dump are one step: it succeeds (SaveWrite) or raises OSError       *)
(* (SaveWriteFails).                                                       *)
(***************************************************************************)
\* SaveWrite without the temporary file: json.dump straight into path.
SaveWriteInPlace(t, path, content) ==
    /\ req[t].pc = "save_write"
    /\ fs' = [fs EXCEPT ![path] = Json(content), ![Tmp(path)] = Json(content)]
    /\ Set(t, [req[t] EXCEPT !.pc = "save_replace", !.wrote = TRUE])

\* with open(tmp_file, "w") as f: json.dump(content, f)
SaveWrite(t, path, content) ==
    /\ req[t].pc = "save_write"
    /\ fs' = [fs EXCEPT ![Tmp(path)] = Json(content)]
    /\ Set(t, [req[t] EXCEPT !.pc = "save_replace", !.wrote = TRUE])

\* os.replace(tmp, path)
Replaced(files, path) ==
    [files EXCEPT ![path] = files[Tmp(path)], ![Tmp(path)] = Absent]

\* os.replace(tmp, path); return True
SaveReplace(t, path) ==
    /\ req[t].pc = "save_replace"
    /\ fs' = Replaced(fs, path)
    /\ Set(t, [req[t] EXCEPT !.pc = "after_save", !.saved = TRUE, !.wrote = TRUE])

\* OSError in the with block: open() raises and the file is as it was, or a
\* write raises and the file holds part of the text
SaveWriteFails(t, path) ==
    /\ req[t].pc = "save_write"
    /\ \/ /\ fs' = fs
          /\ Set(t, [req[t] EXCEPT !.pc = "save_except"])
       \/ /\ fs' = [fs EXCEPT ![Tmp(path)] = Corrupt]
          /\ Set(t, [req[t] EXCEPT !.pc = "save_except", !.wrote = TRUE])

\* OSError in os.replace: nothing is renamed
SaveReplaceFails(t, path) ==
    /\ req[t].pc = "save_replace"
    /\ fs' = fs
    /\ Set(t, [req[t] EXCEPT !.pc = "save_except"])

\* if os.path.exists(tmp): os.remove(tmp)
Removed(files, path) ==
    IF files[Tmp(path)].kind # "absent" THEN [files EXCEPT ![Tmp(path)] = Absent]
    ELSE files

\* SaveExcept without the removal of the temporary file.
SaveExceptNoCleanup(t, path) ==
    /\ req[t].pc = "save_except"
    /\ fs' = fs
    /\ Set(t, [req[t] EXCEPT !.pc = "after_save", !.saved = FALSE])

\* except OSError: log, remove the temporary file (an OSError of os.remove is
\* swallowed), return False
SaveExcept(t, path) ==
    /\ req[t].pc = "save_except"
    /\ \/ /\ fs' = Removed(fs, path)
          /\ Set(t, [req[t] EXCEPT !.pc = "after_save", !.saved = FALSE,
                                   !.wrote = @ \/ fs[Tmp(path)].kind # "absent"])
       \/ /\ fs[Tmp(path)].kind # "absent"
          /\ fs' = fs
          /\ Set(t, [req[t] EXCEPT !.pc = "after_save", !.saved = FALSE,
                                   !.rm_failed = TRUE])

\* save_data when no I/O call fails
save_data(t) ==
    /\ req[t].kind = "log_workout"
    /\ response = Idle
    /\ \/ SaveWrite(t, DATA_FILE, Deref(req[t].data, DEFAULT_DATA))
       \/ SaveReplace(t, DATA_FILE)
    /\ saves_ok' = IF req'[t].saved THEN saves_ok + 1 ELSE saves_ok
    /\ UNCHANGED <<DEFAULT_DATA, locks, response, clock, history>>

\* save_data when an I/O call raises OSError
save_data_OSError(t) ==
    /\ req[t].kind = "log_workout"
    /\ response = Idle
    /\ \/ SaveWriteFails(t, DATA_FILE)
       \/ SaveReplaceFails(t, DATA_FILE)
       \/ SaveExcept(t, DATA_FILE)
    /\ UNCHANGED <<DEFAULT_DATA, locks, response, clock, saves_ok, history>>

\* save_user_info that takes the path of the workout document.
save_user_info_to_data_file(t) ==
    /\ req[t].kind = "user_save"
    /\ response = Idle
    /\ \/ SaveWrite(t, DATA_FILE, req[t].user)
       \/ SaveReplace(t, DATA_FILE)
    /\ UNCHANGED <<DEFAULT_DATA, locks, response, clock, saves_ok, history>>

save_user_info(t) ==
    /\ req[t].kind = "user_save"
    /\ response = Idle
    /\ \/ SaveWrite(t, USER_FILE, req[t].user)
       \/ SaveReplace(t, USER_FILE)
    /\ UNCHANGED <<DEFAULT_DATA, locks, response, clock, saves_ok, history>>

save_user_info_OSError(t) ==
    /\ req[t].kind = "user_save"
    /\ response = Idle
    /\ \/ SaveWriteFails(t, USER_FILE)
       \/ SaveReplaceFails(t, USER_FILE)
       \/ SaveExcept(t, USER_FILE)
    /\ UNCHANGED <<DEFAULT_DATA, locks, response, clock, saves_ok, history>>

(***************************************************************************)
(* threading.Lock: the with statement blocks until the lock is unlocked.   *)
(***************************************************************************)
\* A with statement that enters without waiting for the lock.
Unguarded(lock) == TRUE

\* with lock: can be entered
Acquirable(lock) == lock = NoThread

(***************************************************************************)
(* log_workout                                                             *)
(***************************************************************************)
\* data = load_data(), the first statement of a request a free thread takes
LogLoadData(t) ==
    /\ Free(t)
    /\ Set(t, [New("log_workout") EXCEPT !.pc = "load_user", !.reads = 1,
                                         !.data = load_data(fs[DATA_FILE])])
    /\ UNCHANGED <<fs, DEFAULT_DATA, locks, response, clock, saves_ok, history>>

\* user = load_user_info()
LogLoadUser(t) ==
    /\ At(t, "log_workout", "load_user")
    /\ Set(t, [req[t] EXCEPT !.pc = "validate", !.reads = @ + 1,
                             !.user = load_user_info(fs[USER_FILE])])
    /\ UNCHANGED <<fs, DEFAULT_DATA, locks, response, clock, saves_ok, history>>

\* CategoryOk without the category not in data test.
AnyCategory(category, data) == TRUE

CategoryOk(category, data) == DictHas(data, category)

\* DurationOk without the duration <= 0 test.
DurationParses(duration) == duration.ok

DurationOk(duration) == duration.ok /\ duration.value > 0

\* The flash message of a rejected form, "" for an accepted one.
LogRejection(form, data) ==
    LET category == get(form, "category", "Workout")
        exercise == strip(get(form, "exercise", <<>>))
        duration_str == strip(get(form, "duration", <<>>))
    IN  IF exercise = <<>> \/ duration_str = <<>>
        THEN "Please provide both exercise and duration."
        ELSE IF ~DurationOk(int(duration_str))
        THEN "Duration must be a positive whole number."
        ELSE IF ~CategoryOk(category, data)
        THEN "Invalid category selected."
        ELSE ""

NewEntry(form, user, now) ==
    LET category == get(form, "category", "Workout")
        duration == int(strip(get(form, "duration", <<>>))).value
    IN  [exercise |-> strip(get(form, "exercise", <<>>)),
         duration |-> duration,
         calories |-> _calc_calories(category, duration, user),
         timestamp |-> now,
         date |-> now]

\* request.form is read here for the first time (lines 227-229), so the form
\* the client sent is drawn here.
LogValidate(t, limit) ==
    /\ At(t, "log_workout", "validate")
    /\ \E form \in LogForms :
        LET why == LogRejection(form, Deref(req[t].data, DEFAULT_DATA))
            r == [req[t] EXCEPT !.form = form]
        IN  IF why # ""
            THEN /\ Return(t, r, why)
                 /\ clock' = clock
            ELSE /\ clock < limit
                 /\ Set(t, [r EXCEPT !.pc = "acquire",
                                     !.entry = NewEntry(form, req[t].user, clock + 1)])
                 /\ clock' = clock + 1
                 /\ response' = response
    /\ UNCHANGED <<fs, DEFAULT_DATA, locks, saves_ok, history>>

\* with DATA_LOCK: data[category].append(entry)
\* The thread waits until the lock is free.  A missing key raises KeyError,
\* which leaves the with block (releasing the lock) and ends the request
\* with a 500.
LogAppend(t) ==
    /\ At(t, "log_workout", "acquire")
    /\ Acquirable(DATA_LOCK)
    /\ LET category == get(req[t].form, "category", "Workout")
           data == req[t].data
       IN  IF ~DictHas(Deref(data, DEFAULT_DATA), category)
           THEN /\ Return(t, req[t], "KeyError")
                /\ DATA_LOCK' = NoThread
                /\ DEFAULT_DATA' = DEFAULT_DATA
           ELSE /\ DATA_LOCK' = t
                /\ response' = response
                /\ DEFAULT_DATA' = IF data.alias
                                   THEN ListAppend(DEFAULT_DATA, category, req[t].entry)
                                   ELSE DEFAULT_DATA
                /\ Set(t, [req[t] EXCEPT
                       !.pc = "save_write",
                       !.data = IF data.alias THEN data
                                ELSE [data EXCEPT !.dict =
                                         ListAppend(data.dict, category, req[t].entry)],
                       !.pre_file = fs[DATA_FILE],
                       !.pre_load = LoadedNow])
    /\ UNCHANGED <<fs, USER_LOCK, clock, saves_ok, history>>

\* LogFinish without the test of what save_data returned.
LogFinishAlwaysAdded(t) ==
    /\ At(t, "log_workout", "after_save")
    /\ DATA_LOCK' = NoThread
    /\ Return(t, req[t], "Added")
    /\ UNCHANGED <<fs, DEFAULT_DATA, USER_LOCK, clock, saves_ok, history>>

\* LogFinish whose early return does not leave the with block.
LogFinishHoldsLockOnFailure(t) ==
    /\ At(t, "log_workout", "after_save")
    /\ DATA_LOCK' = IF req[t].saved THEN NoThread ELSE DATA_LOCK
    /\ Return(t, req[t], IF req[t].saved THEN "Added"
                  ELSE "Failed to persist workout data (server filesystem issue).")
    /\ UNCHANGED <<fs, DEFAULT_DATA, USER_LOCK, clock, saves_ok, history>>

\* leaving the with block, and the flash message of either outcome
LogFinish(t) ==
    /\ At(t, "log_workout", "after_save")
    /\ DATA_LOCK' = NoThread
    /\ Return(t, req[t], IF req[t].saved THEN "Added"
                  ELSE "Failed to persist workout data (server filesystem issue).")
    /\ UNCHANGED <<fs, DEFAULT_DATA, USER_LOCK, clock, saves_ok, history>>

log_workout(t, limit) ==
    \/ LogLoadData(t)
    \/ LogLoadUser(t)
    \/ LogValidate(t, limit)
    \/ LogAppend(t)
    \/ save_data(t)
    \/ LogFinish(t)

(***************************************************************************)
(* user_save                                                               *)
(***************************************************************************)
IsControl(c) == c \in {"\t", "\n"}

RECURSIVE RemoveControl(_)
RemoveControl(s) ==
    IF s = <<>> THEN <<>>
    ELSE IF IsControl(Head(s)) THEN RemoveControl(Tail(s))
    ELSE <<Head(s)>> \o RemoveControl(Tail(s))

\* cleaner = lambda s: re.sub(r'[\x00-\x1f\x7f]', '', s.strip())
cleaner(s) == RemoveControl(strip(s))

UpperChar(c) ==
    CASE c = "m" -> "M"
      [] c = "f" -> "F"
      [] c = "x" -> "X"
      [] OTHER -> c

upper(s) == [i \in 1..Len(s) |-> UpperChar(s[i])]

\* float(s), for the decimal strings without a fraction that the forms hold
float(s) == int(s)

\* NumericErrors that finds nothing wrong.
NoNumericErrors(age, height_cm, weight_kg) == <<>>

\* The try block of lines 157-171: the range errors found before a ValueError
\* stay in the list.
NumericErrors(age, height_cm, weight_kg) ==
    IF ~age.ok THEN <<"Numeric field parsing failed.">>
    ELSE
      LET e1 == IF ~(1 <= age.value /\ age.value <= 120)
                THEN <<"Age out of range (1-120).">> ELSE <<>>
      IN  IF ~height_cm.ok THEN e1 \o <<"Numeric field parsing failed.">>
          ELSE
            LET e2 == IF ~(50 <= height_cm.value /\ height_cm.value <= 250)
                      THEN e1 \o <<"Height out of range (50-250 cm).">> ELSE e1
            IN  IF ~weight_kg.ok THEN e2 \o <<"Numeric field parsing failed.">>
                ELSE IF ~(20 <= weight_kg.value /\ weight_kg.value <= 400)
                     THEN e2 \o <<"Weight out of range (20-400 kg).">> ELSE e2

\* Bmr with the constant of gender M for everyone.
BmrMale(gender, weight_kg, height_cm, age) ==
    40 * weight_kg + 25 * height_cm - 20 * age + 20

\* bmr in quarters of a kcal/day (6.25 * height is a multiple of 0.25)
Bmr(gender, weight_kg, height_cm, age) ==
    IF gender = <<"M">>
    THEN 40 * weight_kg + 25 * height_cm - 20 * age + 20
    ELSE 40 * weight_kg + 25 * height_cm - 20 * age - 644

\* bmi = weight_kg / ((height_cm/100)**2), as a fraction
Bmi(weight_kg, height_cm) == [num |-> weight_kg * 10000, den |-> height_cm * height_cm]

_validate_user_form(form) ==
    LET name == cleaner(get(form, "name", <<>>))
        regn_id == cleaner(get(form, "regn_id", <<>>))
        age == int(strip(get(form, "age", <<>>)))
        gender == upper(cleaner(get(form, "gender", <<>>)))
        height_cm == float(strip(get(form, "height", <<>>)))
        weight_kg == float(strip(get(form, "weight", <<>>)))
        errors == NumericErrors(age, height_cm, weight_kg)
                  \o (IF gender \notin {<<"M">>, <<"F">>}
                      THEN <<"Gender must be M or F.">> ELSE <<>>)
                  \o (IF Len(name) > 100 THEN <<"Name too long (>100).">> ELSE <<>>)
                  \o (IF Len(regn_id) > 50 THEN <<"Regn-ID too long (>50).">> ELSE <<>>)
    IN  IF errors # <<>> THEN [errors |-> errors, user |-> <<>>]
        ELSE [errors |-> <<>>,
              user |-> [name |-> name, regn_id |-> regn_id, age |-> age.value,
                        gender |-> gender, height |-> height_cm.value,
                        weight |-> weight_kg.value,
                        bmi |-> Bmi(weight_kg.value, height_cm.value),
                        bmr |-> Bmr(gender, weight_kg.value, height_cm.value, age.value),
                        weekly_cal_goal |-> 2000]]

ValidUserForm ==
    [name |-> <<"A", "l">>, regn_id |-> <<"R", "1">>, age |-> <<"2", "8">>,
     gender |-> <<"f">>, height |-> <<"1", "6", "5">>, weight |-> <<"6", "0">>]

UserForms ==
    {ValidUserForm,
     [ValidUserForm EXCEPT !.age = <<"1", "2", "1">>],
     [ValidUserForm EXCEPT !.age = <<"a", "b", "c">>],
     [ValidUserForm EXCEPT !.height = <<"4", "9">>],
     [ValidUserForm EXCEPT !.weight = <<"4", "0", "1">>],
     [ValidUserForm EXCEPT !.gender = <<"X">>],
     [ValidUserForm EXCEPT !.gender = <<"X">>, !.height = <<"1", "0">>,
                           !.weight = <<"1", "0">>]}

\* errors, user = _validate_user_form(request.form); if errors: flash, return
UserValidate(t) ==
    /\ Free(t)
    /\ \E form \in UserForms :
        LET v == _validate_user_form(form)
            r == [New("user_save") EXCEPT !.form = form, !.user = v.user,
                                          !.errors = v.errors]
        IN  IF v.errors # <<>>
            THEN Return(t, r, "; .join(errors)")
            ELSE /\ Set(t, [r EXCEPT !.pc = "acquire"])
                 /\ response' = response
    /\ UNCHANGED <<fs, DEFAULT_DATA, locks, clock, saves_ok, history>>

\* with USER_LOCK:
UserAcquire(t) ==
    /\ At(t, "user_save", "acquire")
    /\ Acquirable(USER_LOCK)
    /\ USER_LOCK' = t
    /\ Set(t, [req[t] EXCEPT !.pc = "save_write", !.pre_file = fs[USER_FILE]])
    /\ UNCHANGED <<fs, DEFAULT_DATA, DATA_LOCK, response, clock, saves_ok, history>>

UserFinish(t) ==
    /\ At(t, "user_save", "after_save")
    /\ USER_LOCK' = NoThread
    /\ Return(t, req[t], IF req[t].saved THEN "User info saved!"
                         ELSE "Failed to persist user info.")
    /\ UNCHANGED <<fs, DEFAULT_DATA, DATA_LOCK, clock, saves_ok, history>>

user_save(t) ==
    \/ UserValidate(t)
    \/ UserAcquire(t)
    \/ save_user_info(t)
    \/ UserFinish(t)

(***************************************************************************)
(* The reading views.  summary and progress load the ledger once and       *)
(* render it; export_pdf loads the profile, then the ledger, and builds    *)
(* the rows of its table.                                                  *)
(***************************************************************************)
RECURSIVE SumDurations(_)
SumDurations(sessions) ==
    IF sessions = <<>> THEN 0
    ELSE Head(sessions).duration + SumDurations(Tail(sessions))

RECURSIVE TotalTime(_)
TotalTime(data) ==
    IF data = <<>> THEN 0
    ELSE SumDurations(Head(data).sessions) + TotalTime(Tail(data))

summary(t) ==
    /\ Free(t)
    /\ LET data == load_data(fs[DATA_FILE])
       IN  Return(t, [New("summary") EXCEPT !.reads = 1, !.data = data,
                          !.table_data = Deref(data, DEFAULT_DATA)], "")
    /\ UNCHANGED <<fs, DEFAULT_DATA, locks, clock, saves_ok, history>>

\* One row of the table per entry (lines 373-379).
RECURSIVE Rows(_, _)
Rows(cat, sessions) ==
    IF sessions = <<>> THEN <<>>
    ELSE <<[category |-> cat, exercise |-> Head(sessions).exercise,
            duration |-> Head(sessions).duration,
            calories |-> Head(sessions).calories,
            date |-> Head(sessions).timestamp]>> \o Rows(cat, Tail(sessions))

\* for cat, sessions in data.items(): for e in sessions: table_data.append(...)
RECURSIVE TableRows(_)
TableRows(data) ==
    IF data = <<>> THEN <<>>
    ELSE Rows(Head(data).cat, Head(data).sessions) \o TableRows(Tail(data))

TableHeader == [category |-> "Category", exercise |-> "Exercise",
                duration |-> "Duration", calories |-> "Calories", date |-> "Date"]

table_data(data) == <<TableHeader>> \o TableRows(data)

ExportLoadUser(t) ==
    /\ Free(t)
    /\ Set(t, [New("export_pdf") EXCEPT !.pc = "load_data", !.reads = 1,
                                        !.user = load_user_info(fs[USER_FILE])])
    /\ UNCHANGED <<fs, DEFAULT_DATA, locks, response, clock, saves_ok, history>>

ExportLoadData(t) ==
    /\ At(t, "export_pdf", "load_data")
    /\ LET data == load_data(fs[DATA_FILE])
       IN  Return(t, [req[t] EXCEPT !.reads = @ + 1, !.data = data,
                          !.table_data = table_data(Deref(data, DEFAULT_DATA))], "")
    /\ UNCHANGED <<fs, DEFAULT_DATA, locks, clock, saves_ok, history>>

export_pdf(t) == ExportLoadUser(t) \/ ExportLoadData(t)

(***************************************************************************)
(* The server.  The process may be killed and restarted at any point,      *)
(* which loses its memory and keeps the files.                             *)
(***************************************************************************)
Crash ==
    /\ response = Idle
    /\ \E t \in Threads : req[t].pc # "idle"
    /\ req' = [t \in Threads |-> Idle]
    /\ DEFAULT_DATA' = EmptyLedger
    /\ DATA_LOCK' = NoThread
    /\ USER_LOCK' = NoThread
    /\ UNCHANGED <<fs, response, clock, saves_ok, history>>

\* The response of a finished request reaches the client.  It does so before
\* any thread moves on: what the request did is read off the state it
\* returned in.
Deliver ==
    /\ response # Idle
    /\ response' = Idle
    /\ UNCHANGED <<fs, DEFAULT_DATA, locks, req, clock, saves_ok, history>>

(***************************************************************************)
(* Initial state: a fresh process over a file system in which the workout  *)
(* document is absent, unreadable, or was left by an older schema.         *)
(***************************************************************************)
OldEntry == [exercise |-> <<"J">>, duration |-> 5, calories |-> 14700, timestamp |-> 0]

InitDataFiles ==
    {Absent, Corrupt, Json(<<[cat |-> "Workout", sessions |-> <<OldEntry>>]>>)}

InitUserFiles == {Absent}

NoPdf == [pc |-> "none"]
NoCall == [pc |-> "none"]
NoReply == [app |-> "", status |-> "", form |-> <<>>]

InitServer(d, u) ==
    /\ fs = [p \in Paths |-> IF p = DATA_FILE THEN d
                             ELSE IF p = USER_FILE THEN u ELSE Absent]
    /\ count0 = EntryCount(Deref(load_data(d), EmptyLedger))
    /\ DEFAULT_DATA = EmptyLedger
    /\ DATA_LOCK = NoThread
    /\ USER_LOCK = NoThread
    /\ req = [t \in Threads |-> Idle]
    /\ response = Idle
    /\ clock = 0
    /\ saves_ok = 0

Init ==
    /\ \E d \in InitDataFiles, u \in InitUserFiles : InitServer(d, u)
    /\ pdf = NoPdf
    /\ call = NoCall
    /\ workouts = <<>>
    /\ reply = NoReply

\* The server while every I/O call succeeds, logging at most limit entries.
Server(limit) ==
    \/ \E t \in Threads : log_workout(t, limit)
    \/ \E t \in Threads : user_save(t)
    \/ \E t \in Threads : summary(t)
    \/ \E t \in Threads : export_pdf(t)
    \/ Crash
    \/ Deliver

Next == Server(MaxEntries)

Spec == Init /\ [][Next]_vars

\* The server on a file system whose writes, renames and removals can raise
\* OSError.
NextOSError ==
    \/ Server(MaxEntriesOSError)
    \/ \E t \in Threads : save_data_OSError(t)
    \/ \E t \in Threads : save_user_info_OSError(t)

SpecOSError == Init /\ [][NextOSError]_vars

(***************************************************************************)
(* The writing requests of a process that stays up, on a file system whose *)
(* calls can raise OSError, under fair scheduling: a response on its way   *)
(* out is delivered, and a thread that can move again and again does move. *)
(* For a thread blocked in a with statement this means that it is not      *)
(* overtaken for ever; the fairness is strong because a blocked thread can *)
(* move only between a release and the next acquisition, and because no    *)
(* thread moves while a response is on its way out.                        *)
(***************************************************************************)
MaxEntriesFair == 2

\* One step of the request thread t runs.
Step(t) ==
    \/ log_workout(t, MaxEntriesFair)
    \/ user_save(t)
    \/ save_data_OSError(t)
    \/ save_user_info_OSError(t)

NextFair ==
    \/ \E t \in Threads : log_workout(t, MaxEntriesFair)
    \/ \E t \in Threads : user_save(t)
    \/ \E t \in Threads : save_data_OSError(t)
    \/ \E t \in Threads : save_user_info_OSError(t)
    \/ Deliver

Fairness ==
    /\ WF_vars(Deliver)
    /\ \A t \in Threads : SF_vars(Step(t))

\* A fresh process over an empty instance directory.
InitFair ==
    /\ InitServer(Absent, Absent)
    /\ pdf = NoPdf
    /\ call = NoCall
    /\ workouts = <<>>
    /\ reply = NoReply

SpecFair == InitFair /\ [][NextFair]_vars /\ Fairness

(***************************************************************************)
(* The page layout of export_pdf (lines 352-399), once user and data are   *)
(* loaded.  Lengths are in 1/127 pt: A4 is 210 mm x 297 mm, a mm is        *)
(* 72/25.4 pt, so the page is 106920/127 pt high and every length of the   *)
(* code is a whole number of 1/127 pt.                                     *)
(***************************************************************************)
Pt(n) == 127 * n

\* width, height = A4
height == 106920

base_y == height - Pt(80)
line_gap == Pt(16)
est_row_height == Pt(18)
bottom_margin == Pt(60)

\* if user: one line; if 'height' in user and 'weight' in user: a second one
user_lines(user) ==
    IF user = <<>> THEN <<>>
    ELSE <<<<"Regn-ID", get(user, "regn_id", "-"), get(user, "age", "-"),
             get(user, "gender", "-")>>>>
         \o (IF "height" \in DOMAIN user /\ "weight" \in DOMAIN user
             THEN <<<<"Height", user.height, user.weight, get(user, "bmi", 0),
                      get(user, "bmr", 0)>>>>
             ELSE <<>>)

\* c.drawString(x, y, text)
drawString(x, y, text) == [kind |-> "string", x |-> x, y |-> y, text |-> text]

\* for i, line in enumerate(user_lines): c.drawString(50, base_y - i * line_gap, line)
DrawLines(lines) ==
    [i \in 1..Len(lines) |-> drawString(Pt(50), base_y - (i - 1) * line_gap, lines[i])]

\* table.drawOn(c, x, y)
drawOn(table, x, y) == [kind |-> "table", x |-> x, y |-> y, text |-> table]

\* c.showPage(): the page under construction is finished, a new one begins
showPage(c) == [pages |-> Append(c.pages, c.page), page |-> <<>>]

\* c.save(): a page with something on it is finished first
save(c) == IF c.page # <<>> THEN showPage(c) ELSE c

Draw(c, item) == [c EXCEPT !.page = Append(@, item)]

\* NeedsContinuation without the bottom margin.
NeedsContinuationNoMargin(est_table_height, y) == est_table_height > y

\* if est_table_height > available_height
NeedsContinuation(est_table_height, y) == est_table_height > y - bottom_margin

\* c = Canvas(...); c.drawString(50, height - 50, "Weekly Fitness Report - ...")
PdfTitle ==
    /\ pdf.pc = "title"
    /\ UNCHANGED <<server, call, memory>>
    /\ pdf' = [pdf EXCEPT !.pc = "user_lines",
                 !.c = Draw(@, drawString(Pt(50), height - Pt(50),
                            <<"Weekly Fitness Report - ",
                              get(pdf.user, "name", "Anonymous")>>))]

\* lines 357-379: the user lines, y, and the rows of the table
PdfUserLines ==
    /\ pdf.pc = "user_lines"
    /\ UNCHANGED <<server, call, memory>>
    /\ LET lines == user_lines(pdf.user)
           drawn == DrawLines(lines)
       IN  pdf' = [pdf EXCEPT !.pc = "decide",
                      !.c = [@ EXCEPT !.page = @ \o drawn],
                      !.y = base_y - Len(lines) * line_gap - Pt(40),
                      !.table_data = table_data(pdf.data)]

\* lines 386-395: the estimated height and the choice of the page
PdfDecide ==
    /\ pdf.pc = "decide"
    /\ UNCHANGED <<server, call, memory>>
    /\ LET est_table_height == est_row_height * Len(pdf.table_data)
       IN  IF NeedsContinuation(est_table_height, pdf.y)
           THEN pdf' = [pdf EXCEPT !.pc = "draw",
                          !.est_table_height = est_table_height,
                          !.c = Draw(showPage(@),
                                     drawString(Pt(50), height - Pt(50),
                                         <<"Workout Session Details (Continued)">>)),
                          !.y = height - Pt(90)]
           ELSE pdf' = [pdf EXCEPT !.pc = "draw",
                          !.est_table_height = est_table_height]

\* draw_y = y - est_table_height; table.drawOn(c, 50, draw_y)
PdfDraw ==
    /\ pdf.pc = "draw"
    /\ UNCHANGED <<server, call, memory>>
    /\ LET draw_y == pdf.y - pdf.est_table_height
       IN  pdf' = [pdf EXCEPT !.pc = "save", !.draw_y = draw_y,
                      !.c = Draw(@, drawOn(pdf.table_data, Pt(50), draw_y))]

\* c.save()
PdfSave ==
    /\ pdf.pc = "save"
    /\ UNCHANGED <<server, call, memory>>
    /\ pdf' = [pdf EXCEPT !.pc = "done", !.c = save(@)]

\* A ledger of n entries, as load_data returns it
PdfEntry(i) ==
    [exercise |-> <<"A">>, duration |-> 15, calories |-> 88200, timestamp |-> i]

PdfLedger(n) ==
    <<[cat |-> "Warm-up", sessions |-> <<>>],
      [cat |-> "Workout", sessions |-> [i \in 1..n |-> PdfEntry(i)]],
      [cat |-> "Cool-down", sessions |-> <<>>]>>

\* The profiles load_user_info returns: none, one saved by user_save, one of a
\* document without height and weight
PdfUsers ==
    {DEFAULT_USER_INFO,
     _validate_user_form([name |-> <<"A", "l">>, regn_id |-> <<"R", "1">>,
                          age |-> <<"2", "8">>, gender |-> <<"f">>,
                          height |-> <<"1", "6", "5">>,
                          weight |-> <<"6", "0">>]).user,
     [name |-> <<"A", "l">>, regn_id |-> <<"R", "1">>, age |-> 28,
      gender |-> <<"F">>]}

InitPdf ==
    /\ InitServer(Absent, Absent)
    /\ call = NoCall
    /\ workouts = <<>>
    /\ reply = NoReply
    /\ \E n \in 0..MaxRows, user \in PdfUsers :
          pdf = [pc |-> "title", user |-> user, data |-> PdfLedger(n),
                 c |-> [pages |-> <<>>, page |-> <<>>],
                 y |-> 0, table_data |-> <<>>, est_table_height |-> 0,
                 draw_y |-> 0]

NextPdf == PdfTitle \/ PdfUserLines \/ PdfDecide \/ PdfDraw \/ PdfSave

SpecPdf == InitPdf /\ [][NextPdf]_vars

(***************************************************************************)
(* The pure functions of src/app.py, each called once on arguments drawn   *)
(* from a bounded set.                                                     *)
(***************************************************************************)
\* The profiles _calc_calories is handed: none, one without a weight field,
\* and profiles saved by user_save
CalorieUsers ==
    {DEFAULT_USER_INFO,
     [name |-> <<"A", "l">>, regn_id |-> <<"R", "1">>]}
    \cup {_validate_user_form([name |-> <<"A", "l">>, regn_id |-> <<"R", "1">>,
                               age |-> <<"2", "8">>, gender |-> <<"f">>,
                               height |-> <<"1", "6", "5">>,
                               weight |-> w]).user :
             w \in {<<"6", "0">>, <<"8", "0">>}}

CalorieCategories == {"Warm-up", "Workout", "Cool-down", "Custom"}

InitCalories ==
    \E category \in CalorieCategories, duration \in 1..MaxDuration,
       user \in CalorieUsers :
          call = [fn |-> "_calc_calories", pc |-> "called",
                  args |-> [category |-> category, duration |-> duration,
                            user |-> user],
                  result |-> None]

\* calories = _calc_calories(category, duration, user)
CallCalcCalories ==
    /\ call.fn = "_calc_calories"
    /\ call.pc = "called"
    /\ call' = [call EXCEPT !.pc = "returned",
                  !.result = _calc_calories(call.args.category, call.args.duration,
                                            call.args.user)]
    /\ UNCHANGED <<server, pdf, memory>>

\* The forms _validate_user_form is handed: every field at, inside and
\* outside the ends of its range, and an age that is no number
ValidateForms ==
    {[name |-> <<"A", "l">>, regn_id |-> <<"R", "1">>, age |-> age,
      gender |-> gender, height |-> h, weight |-> w] :
        age \in {<<"0">>, <<"1">>, <<"2", "8">>, <<"1", "2", "0">>,
                 <<"1", "2", "1">>, <<"a", "b", "c">>},
        gender \in {<<"m">>, <<"F">>, <<"X">>},
        h \in {<<"4", "9">>, <<"5", "0">>, <<"1", "6", "5">>, <<"2", "5", "0">>,
               <<"2", "5", "1">>},
        w \in {<<"1", "9">>, <<"2", "0">>, <<"6", "0">>, <<"4", "0", "0">>,
               <<"4", "0", "1">>}}

InitValidate ==
    \E form \in ValidateForms :
        call = [fn |-> "_validate_user_form", pc |-> "called",
                args |-> [form |-> form], result |-> None]

\* errors, user = _validate_user_form(request.form)
CallValidateUserForm ==
    /\ call.fn = "_validate_user_form"
    /\ call.pc = "called"
    /\ call' = [call EXCEPT !.pc = "returned",
                  !.result = _validate_user_form(call.args.form)]
    /\ UNCHANGED <<server, pdf, memory>>

InitPure ==
    /\ InitServer(Absent, Absent)
    /\ pdf = NoPdf
    /\ workouts = <<>>
    /\ reply = NoReply
    /\ InitCalories \/ InitValidate

NextPure == CallCalcCalories \/ CallValidateUserForm

SpecPure == InitPure /\ [][NextPure]_vars

(***************************************************************************)
(* The in-memory variant: add_session of src/app/app.py and of             *)
(* src/app/ appv1.1.py, each on the workouts dict of its own module.      *)
(* Requests are served one after the other, so a request is one step.      *)
(***************************************************************************)
AddForms ==
    {[category |-> c, exercise |-> e, duration |-> d] :
        c \in {"Warm-up", "Custom"},
        e \in {<<"A", " ">>, <<" ">>},
        d \in {<<" ", "7">>, <<"0">>, <<"-", "5">>, <<"a", "b", "c">>, <<>>}}
    \cup {[exercise |-> <<"B">>, duration |-> <<"7">>], [duration |-> <<"7">>]}

\* AddRejection without the test for blank fields.
AddRejectionNoBlankTest(form) ==
    IF ~int(strip(get(form, "duration", <<>>))).ok
    THEN "Error: duration must be a number"
    ELSE ""

\* The status of a rejected form, "" for an accepted one (lines 207-214).
AddRejection(form) ==
    LET exercise == strip(get(form, "exercise", <<>>))
        duration_raw == strip(get(form, "duration", <<>>))
    IN  IF exercise = <<>> \/ duration_raw = <<>>
        THEN "Error: exercise and duration required"
        ELSE IF ~int(duration_raw).ok
        THEN "Error: duration must be a number"
        ELSE ""

\* entry = {"exercise": ..., "duration": ..., "timestamp": ...}
AddEntry(form, now) ==
    [exercise |-> strip(get(form, "exercise", <<>>)),
     duration |-> int(strip(get(form, "duration", <<>>))).value,
     timestamp |-> now]

\* SetDefaultAppend that appends to an existing category only.
AppendIfPresent(d, category, entry) ==
    IF DictHas(d, category) THEN ListAppend(d, category, entry) ELSE d

\* workouts.setdefault(category, []).append(entry)
SetDefaultAppend(d, category, entry) ==
    ListAppend(DictSetDefault(d, category), category, entry)

\* if category not in workouts: workouts[category] = []
\* workouts[category].append(entry)
CreateAppend(d, category, entry) ==
    ListAppend(IF ~DictHas(d, category)
               THEN Append(d, [cat |-> category, sessions |-> <<>>])
               ELSE d,
               category, entry)

\* One request to /add of the module app ("app.py" or "appv1.1.py").
AddSession(app) ==
    /\ \E form \in AddForms :
        LET why == AddRejection(form)
            category == get(form, "category", "Workout")
        IN  IF why # ""
            THEN /\ reply' = [reply EXCEPT !.status = why, !.form = form]
                 /\ UNCHANGED <<workouts, clock>>
            ELSE /\ EntryCount(workouts) < MaxSessions
                 /\ workouts' =
                        IF app = "app.py"
                        THEN SetDefaultAppend(workouts, category,
                                              AddEntry(form, clock + 1))
                        ELSE CreateAppend(workouts, category,
                                          AddEntry(form, clock + 1))
                 /\ clock' = clock + 1
                 /\ reply' = [reply EXCEPT !.status = "Added", !.form = form]
    /\ UNCHANGED <<fs, DEFAULT_DATA, locks, req, response, saves_ok, count0, pdf,
                   call>>

\* add_session of src/app/app.py
add_session ==
    /\ reply.app = "app.py"
    /\ AddSession("app.py")

\* add_session of src/app/ appv1.1.py
add_session_v1_1 ==
    /\ reply.app = "appv1.1.py"
    /\ AddSession("appv1.1.py")

InitMemory ==
    /\ InitServer(Absent, Absent)
    /\ pdf = NoPdf
    /\ call = NoCall
    /\ workouts = <<[cat |-> "Warm-up", sessions |-> <<>>],
                    [cat |-> "Workout", sessions |-> <<>>],
                    [cat |-> "Cool-down", sessions |-> <<>>]>>
    /\ \E app \in {"app.py", "appv1.1.py"} : reply = [NoReply EXCEPT !.app = app]

NextMemory == add_session \/ add_session_v1_1

SpecMemory == InitMemory /\ [][NextMemory]_vars

(***************************************************************************)
(* Properties                                                              *)
(***************************************************************************)

\* C1: when no log_workout request is in progress, the persisted workout
\* ledger holds one entry more than at start for every save_data call that
\* returned True: two concurrent valid requests whose saves both succeed add
\* two entries (no lost update).
C1_NoLostUpdate ==
    (\A t \in Threads : req[t].kind # "log_workout")
        => EntryCount(Deref(load_data(fs[DATA_FILE]), EmptyLedger)) = count0 + saves_ok

\* C2: when the process dies while a save is between writing the temporary
\* file and os.replace, the canonical document is what it was when the save
\* started, and a load in the restarted process returns what that document
\* holds; for save_data and load_data as for save_user_info and
\* load_user_info.
C2_InterruptedSaveStep ==
    (/\ response = Idle
     /\ response' = Idle
     /\ req' = [t \in Threads |-> Idle])
        => \A t \in Threads :
              req[t].pc = "save_replace" =>
                 IF req[t].kind = "log_workout"
                 THEN /\ fs'[DATA_FILE] = req[t].pre_file
                      /\ Deref(load_data(fs'[DATA_FILE]), DEFAULT_DATA')
                            = Deref(load_data(req[t].pre_file), EmptyLedger)
                 ELSE /\ fs'[USER_FILE] = req[t].pre_file
                      /\ load_user_info(fs'[USER_FILE])
                            = load_user_info(req[t].pre_file)

C2_InterruptedSave == [][C2_InterruptedSaveStep]_vars

\* A save was interrupted: no request is running and the temporary file of
\* the workout document (of the user document) is still there.
C2_Witness ==
    /\ \A t \in Threads : req[t].pc = "idle"
    /\ response = Idle
    /\ fs[Tmp(DATA_FILE)].kind = "json"
    /\ fs[DATA_FILE].kind = "json"
    /\ fs[DATA_FILE].doc # fs[Tmp(DATA_FILE)].doc

\* C3: with no request in progress, load_data on an absent or corrupt
\* workout document returns the default empty ledger: Warm-up, Workout and
\* Cool-down, each empty.
C3_DefaultLedgerEmpty ==
    (/\ \A t \in Threads : req[t].pc = "idle"
     /\ fs[DATA_FILE].kind \in {"absent", "corrupt"})
        => LoadedNow = <<[cat |-> "Warm-up", sessions |-> <<>>],
                         [cat |-> "Workout", sessions |-> <<>>],
                         [cat |-> "Cool-down", sessions |-> <<>>]>>

\* C4: when log_workout answers that the save failed, load_data returns the
\* ledger it returned before the append, whether or not the document
\* existed.
C4_FailedSaveDiscarded ==
    (/\ response.kind = "log_workout"
     /\ response.pre_load # None
     /\ ~response.saved)
        => LoadedNow = response.pre_load

\* C5 as stated: a save that met an OSError has returned False with the
\* canonical document unchanged and no temporary file.
C5_NoTempAfterFailure ==
    \A t \in Threads :
        (req[t].pc = "after_save" /\ ~req[t].saved) =>
            LET path == IF req[t].kind = "log_workout" THEN DATA_FILE ELSE USER_FILE
            IN  /\ fs[path] = req[t].pre_file
                /\ fs[Tmp(path)].kind = "absent"

\* C5, amended: a save that met an OSError has returned False with the
\* canonical document unchanged, and the temporary file does not exist
\* unless os.remove raised OSError as well.
C5_FailureCleansUp ==
    \A t \in Threads :
        (req[t].pc = "after_save" /\ ~req[t].saved) =>
            LET path == IF req[t].kind = "log_workout" THEN DATA_FILE ELSE USER_FILE
            IN  /\ fs[path] = req[t].pre_file
                /\ fs[Tmp(path)].kind = "absent" \/ req[t].rm_failed

\* os.replace raised after the temporary file was written, and the file was
\* removed.
C5_Witness ==
    \E t \in Threads :
        /\ req[t].pc = "after_save"
        /\ ~req[t].saved
        /\ req[t].wrote
        /\ ~req[t].rm_failed
        /\ fs[Tmp(USER_FILE)].kind = "absent"
        /\ fs[Tmp(DATA_FILE)].kind = "absent"

\* C6: a log_workout request whose duration is "0", negative, non-numeric or
\* blank, or whose exercise is blank, is answered without the with
\* DATA_LOCK block having run (nothing appended) and without any write of
\* the temporary file or the document.
C6_InvalidLogWritesNothing ==
    (/\ response.kind = "log_workout"
     /\ \/ get(response.form, "duration", <<>>)
              \in {<<>>, <<"0">>, <<"-", "5">>, <<"a", "b", "c">>}
        \/ get(response.form, "exercise", <<>>) \in {<<>>, <<" ">>})
        => /\ ~response.wrote
           /\ ~response.saved
           /\ response.entry = None
           /\ response.pre_file = None
           /\ response.flash \in {"Please provide both exercise and duration.",
                                  "Duration must be a positive whole number."}

C6_Witness ==
    /\ response.kind = "log_workout"
    /\ get(response.form, "duration", <<>>) = <<"0">>
    /\ response.flash = "Duration must be a positive whole number."
    /\ fs[Tmp(DATA_FILE)].kind = "absent"

\* C7: every ledger load_data returns has the three default categories; a
\* category the document lacks is returned empty, and what the document
\* holds is returned as it is, with no other key.
C7_DefaultCategoriesPresent ==
    /\ \A c \in {"Warm-up", "Workout", "Cool-down"} :
          /\ DictHas(LoadedNow, c)
          /\ \A t \in Threads :
                req[t].data # None => DictHas(Deref(req[t].data, DEFAULT_DATA), c)
    /\ fs[DATA_FILE].kind = "json" =>
          LET doc == fs[DATA_FILE].doc
              got == load_data(fs[DATA_FILE]).dict
              Keys(d) == {d[i].cat : i \in 1..Len(d)}
          IN  /\ \A c \in Keys(doc) : DictGet(got, c) = DictGet(doc, c)
              /\ \A c \in {"Warm-up", "Workout", "Cool-down"} \ Keys(doc) :
                    DictGet(got, c) = <<>>
              /\ Keys(got) = Keys(doc) \cup {"Warm-up", "Workout", "Cool-down"}

\* A request has loaded a document that lacks Warm-up and Cool-down.
C7_Witness ==
    /\ fs[DATA_FILE].kind = "json"
    /\ ~DictHas(fs[DATA_FILE].doc, "Warm-up")
    /\ \E t \in Threads :
          /\ req[t].data # None
          /\ ~req[t].data.alias
          /\ DictGet(req[t].data.dict, "Warm-up") = <<>>
          /\ DictGet(req[t].data.dict, "Workout") # <<>>

\* C8 as stated: a log_workout request with exercise and a positive
\* duration whose category is not in the loaded ledger is saved, the
\* category being created.
C8_UnknownCategoryAccepted ==
    (/\ response.kind = "log_workout"
     /\ ~DictHas(Deref(response.data, DEFAULT_DATA),
                 get(response.form, "category", "Workout"))
     /\ response.flash \notin {"Please provide both exercise and duration.",
                               "Duration must be a positive whole number."})
        => /\ response.saved
           /\ DictHas(LoadedNow, get(response.form, "category", "Workout"))

\* C8, amended: a log_workout request with exercise and a positive duration
\* whose category is not in the loaded ledger is rejected with 'Invalid
\* category selected.': nothing is appended and nothing is written.
C8_UnknownCategoryRejected ==
    (/\ response.kind = "log_workout"
     /\ ~DictHas(Deref(response.data, DEFAULT_DATA),
                 get(response.form, "category", "Workout"))
     /\ response.flash \notin {"Please provide both exercise and duration.",
                               "Duration must be a positive whole number."})
        => /\ response.flash = "Invalid category selected."
           /\ ~response.wrote
           /\ ~response.saved
           /\ response.pre_file = None

C8_Witness ==
    /\ response.kind = "log_workout"
    /\ get(response.form, "category", "Workout") = "Custom"
    /\ response.flash = "Invalid category selected."

\* C9: in the finished document, with est = 18 * (1 + rows) and
\* y = (height - 80) - 16 * user_lines - 40: the table is drawn once; if
\* est > y - 60 there are two pages, the second starting with 'Workout
\* Session Details (Continued)' and holding the table; otherwise there is
\* one page, holding the table.
C9_TablePlacement ==
    pdf.pc = "done" =>
        LET pages == pdf.c.pages
            Strings(page) == {i \in 1..Len(page) : page[i].kind = "string"}
            Tables(page) == {i \in 1..Len(page) : page[i].kind = "table"}
            rows == EntryCount(pdf.data)
            lines == Cardinality(Strings(pages[1])) - 1
            est == Pt(18) * (1 + rows)
            y == (height - Pt(80)) - Pt(16) * lines - Pt(40)
        IN  /\ pdf.est_table_height = est
            /\ Len(pages) \in {1, 2}
            /\ Cardinality(Tables(pages[1])) = IF est > y - Pt(60) THEN 0 ELSE 1
            /\ IF est > y - Pt(60)
               THEN /\ Len(pages) = 2
                    /\ pages[2][1].kind = "string"
                    /\ pages[2][1].text = <<"Workout Session Details (Continued)">>
                    /\ Cardinality(Tables(pages[2])) = 1
                    /\ Cardinality(Strings(pages[2])) = 1
               ELSE Len(pages) = 1

\* A table that is moved to the continuation page although it is lower
\* than the start page's space above the bottom of the page.
C9_Witness ==
    /\ pdf.pc = "done"
    /\ Len(pdf.c.pages) = 2
    /\ Len(pdf.table_data) = 36
    /\ pdf.user # <<>>

\* C10: the rows of the report's table come in the order Warm-up, Workout,
\* Cool-down, then other categories, and within a category in the order in
\* which the entries were appended.
C10_RowsInBucketOrder ==
    response.kind = "export_pdf" =>
        LET rows == response.table_data
            Rank(cat) == CASE cat = "Warm-up" -> 1
                           [] cat = "Workout" -> 2
                           [] cat = "Cool-down" -> 3
                           [] OTHER -> 4
        IN  \A i, j \in 2..Len(rows) :
               i < j => /\ Rank(rows[i].category) <= Rank(rows[j].category)
                        /\ rows[i].category = rows[j].category
                              => rows[i].date <= rows[j].date

\* C11: _calc_calories returns MET * 3.5 * weight / 200 * duration (here in
\* 1/800 kcal), MET being 3.0 for Warm-up, 6.0 for Workout, 2.5 for
\* Cool-down and 5.0 for any other category, weight being the profile's
\* weight or 70 without one; Workout for 10 minutes at 80 kg gives 84.0.
C11_CaloriesFormula ==
    (call.fn = "_calc_calories" /\ call.pc = "returned") =>
        LET a == call.args
            met10 == CASE a.category = "Warm-up" -> 30
                       [] a.category = "Workout" -> 60
                       [] a.category = "Cool-down" -> 25
                       [] OTHER -> 50
            weight == IF a.user # <<>> /\ "weight" \in DOMAIN a.user
                      THEN a.user.weight ELSE 70
        IN  /\ call.result * 10 * 10 * 200 = 800 * met10 * 35 * weight * a.duration
            /\ (a.category = "Workout" /\ a.duration = 10 /\ weight = 80)
                  => call.result = 84 * 800

C11_Witness ==
    /\ call.fn = "_calc_calories"
    /\ call.pc = "returned"
    /\ call.args.category = "Workout"
    /\ call.args.duration = 10
    /\ call.args.user # <<>>
    /\ "weight" \in DOMAIN call.args.user
    /\ call.args.user.weight = 80
    /\ call.result = 67200

\* C12: the record an accepted user form yields, which user_save hands to
\* save_user_info, holds the form's age, gender, height and weight, bmi =
\* weight / (height/100)^2 (the fraction weight*100^2 / height^2), bmr = 10*weight + 6.25*height - 5*age + 5 for M
\* and - 161 for F (here in quarters of a kcal/day), and weekly_cal_goal
\* 2000; 60 kg, 165 cm, age 28, F gives bmr 1330.25.
C12_BmiBmrStored ==
    (/\ call.fn = "_validate_user_form"
     /\ call.pc = "returned"
     /\ call.result.errors = <<>>) =>
        LET u == call.result.user
            form == call.args.form
        IN  /\ u.age = DigitsValue(form.age, 0)
            /\ u.height = DigitsValue(form.height, 0)
            /\ u.weight = DigitsValue(form.weight, 0)
            /\ u.gender \in {<<"M">>, <<"F">>}
            /\ u.gender = <<"M">> <=> form.gender \in {<<"m">>, <<"M">>}
            /\ u.bmi = [num |-> u.weight * 100 * 100, den |-> u.height * u.height]
            /\ u.bmr = 4 * (10 * u.weight - 5 * u.age) + 25 * u.height
                       + (IF u.gender = <<"M">> THEN 4 * 5 ELSE 0 - 4 * 161)
            /\ u.weekly_cal_goal = 2000
            /\ (u.weight = 60 /\ u.height = 165 /\ u.age = 28 /\ u.gender = <<"F">>)
                  => u.bmr = 4 * 1330 + 1

C12_Witness ==
    /\ call.fn = "_validate_user_form"
    /\ call.pc = "returned"
    /\ call.result.errors = <<>>
    /\ call.result.user.gender = <<"F">>
    /\ call.result.user.weight = 60
    /\ call.result.user.height = 165
    /\ call.result.user.age = 28
    /\ call.result.user.bmr = 5321

\* C13: a user_save request whose age is 121 or no number, whose height
\* is 49 or 10, whose weight is 401 or 10, or whose gender is X is answered
\* with a non-empty list of errors and an empty record, without
\* save_user_info being called and with every file as it was, so that
\* load_user_info returns what it returned before.
C13_InvalidUserStep ==
    (/\ response = Idle
     /\ response'.kind = "user_save"
     /\ \/ response'.form.age \in {<<"1", "2", "1">>, <<"a", "b", "c">>}
        \/ response'.form.height \in {<<"4", "9">>, <<"1", "0">>}
        \/ response'.form.weight \in {<<"4", "0", "1">>, <<"1", "0">>}
        \/ response'.form.gender = <<"X">>)
        => /\ response'.errors # <<>>
           /\ response'.user = <<>>
           /\ ~response'.wrote
           /\ ~response'.saved
           /\ response'.pre_file = None
           /\ fs' = fs
           /\ load_user_info(fs'[USER_FILE]) = load_user_info(fs[USER_FILE])

C13_InvalidUserRejected == [][C13_InvalidUserStep]_vars

\* A form with an age out of range has been rejected while a profile is
\* stored.
C13_Witness ==
    /\ response.kind = "user_save"
    /\ response.form.age = <<"1", "2", "1">>
    /\ response.errors = <<"Age out of range (1-120).">>
    /\ fs[USER_FILE].kind = "json"
    /\ fs[USER_FILE].doc.age = 28

\* C14: the ledger a reader (summary, export_pdf) obtains from load_data
\* is the default empty ledger or the ledger of the document that is in
\* place when it reads, which is a completely written one; never a
\* writer's unsaved entries.
C14_ReaderSnapshot ==
    LET stored == IF fs[DATA_FILE].kind = "json"
                  THEN EnsureKeys(fs[DATA_FILE].doc, <<"Warm-up", "Workout", "Cool-down">>)
                  ELSE <<[cat |-> "Warm-up", sessions |-> <<>>],
                         [cat |-> "Workout", sessions |-> <<>>],
                         [cat |-> "Cool-down", sessions |-> <<>>]>>
    IN  /\ response.kind = "summary" => response.table_data = stored
        /\ response.kind = "export_pdf" => response.table_data = table_data(stored)

\* C15: whenever the workout document is replaced, every category of the
\* old document is in the new one and its old sequence is a prefix of its
\* new sequence: entries are never changed, moved or removed.
C15_AppendOnlyStep ==
    (fs[DATA_FILE].kind = "json" /\ fs'[DATA_FILE] # fs[DATA_FILE]) =>
        /\ fs'[DATA_FILE].kind = "json"
        /\ LET old == fs[DATA_FILE].doc
               new == fs'[DATA_FILE].doc
           IN  \A i \in 1..Len(old) :
                  \E j \in 1..Len(new) :
                     /\ new[j].cat = old[i].cat
                     /\ Len(old[i].sessions) <= Len(new[j].sessions)
                     /\ \A k \in 1..Len(old[i].sessions) :
                           new[j].sessions[k] = old[i].sessions[k]

C15_AppendOnly == [][C15_AppendOnlyStep]_vars

\* C16: no step of a user_save request changes the workout document or its
\* temporary file, so the calories of the stored entries stay what they were
\* when appended; no step of a log_workout request changes the user
\* document or its temporary file.
C16_FrameStep ==
    LET StepOf(kind) ==
            \/ \E t \in Threads :
                  /\ req'[t] # req[t]
                  /\ req[t].kind = kind \/ req'[t].kind = kind
            \/ response = Idle /\ response'.kind = kind
    IN  /\ StepOf("user_save") =>
              /\ fs'[DATA_FILE] = fs[DATA_FILE]
              /\ fs'[Tmp(DATA_FILE)] = fs[Tmp(DATA_FILE)]
        /\ StepOf("log_workout") =>
              /\ fs'[USER_FILE] = fs[USER_FILE]
              /\ fs'[Tmp(USER_FILE)] = fs[Tmp(USER_FILE)]

C16_Frame == [][C16_FrameStep]_vars

\* A profile of 60 kg has been saved after an entry was stored with the
\* calories of the default 70 kg, and the entry still holds them.
C16_Witness ==
    /\ response.kind = "user_save"
    /\ response.saved
    /\ fs[USER_FILE].kind = "json"
    /\ fs[USER_FILE].doc.weight = 60
    /\ fs[DATA_FILE].kind = "json"
    /\ \E i \in 1..Len(fs[DATA_FILE].doc) :
          /\ fs[DATA_FILE].doc[i].cat = "Warm-up"
          /\ fs[DATA_FILE].doc[i].sessions # <<>>
          /\ fs[DATA_FILE].doc[i].sessions[1].calories = 42 * 70 * 15

\* C17: a log_workout request rejected for a blank exercise or duration or
\* for a duration that is no positive whole number has not loaded the
\* workout document.
C17_RejectedBeforeLoad ==
    (/\ response.kind = "log_workout"
     /\ response.flash \in {"Please provide both exercise and duration.",
                            "Duration must be a positive whole number."})
        => /\ response.data = None
           /\ response.reads = 0

\* C18: in the in-memory variant, a request with a blank exercise, a blank
\* duration or a duration that is no number leaves workouts as it was: no
\* entry is added and no category is created.
C18_InvalidAddStep ==
    (\/ get(reply'.form, "exercise", <<>>) \in {<<>>, <<" ">>}
     \/ get(reply'.form, "duration", <<>>) \in {<<>>, <<"a", "b", "c">>})
        => /\ workouts' = workouts
           /\ reply'.status \in {"Error: exercise and duration required",
                                 "Error: duration must be a number"}

C18_InvalidAddUnchanged == [][C18_InvalidAddStep]_vars

\* A non-numeric duration has been rejected while workouts holds an entry
\* in a category that a request created.
C18_Witness ==
    /\ reply.status = "Error: duration must be a number"
    /\ reply.form.duration = <<"a", "b", "c">>
    /\ DictHas(workouts, "Custom")
    /\ Len(DictGet(workouts, "Custom")) = 1

\* C19: in the in-memory variant, an accepted request whose category is no
\* key of workouts adds that category after the existing ones, with the new
\* entry as its only element, and leaves every existing category's sequence
\* as it was.
C19_NewCategoryStep ==
    (/\ reply'.status = "Added"
     /\ ~DictHas(workouts, get(reply'.form, "category", "Workout")))
        => /\ Len(workouts') = Len(workouts) + 1
           /\ \A i \in 1..Len(workouts) : workouts'[i] = workouts[i]
           /\ workouts'[Len(workouts')].cat = reply'.form.category
           /\ Len(workouts'[Len(workouts')].sessions) = 1
           /\ workouts'[Len(workouts')].sessions[1].exercise = <<"A">>
           /\ workouts'[Len(workouts')].sessions[1].duration
                 = IF reply'.form.duration = <<" ", "7">> THEN 7
                   ELSE IF reply'.form.duration = <<"0">> THEN 0 ELSE 0 - 5

C19_NewCategory == [][C19_NewCategoryStep]_vars

C19_Witness ==
    /\ reply.status = "Added"
    /\ get(reply.form, "category", "Workout") = "Custom"
    /\ Len(workouts) = 4
    /\ workouts[4].cat = "Custom"
    /\ workouts[4].sessions[1].exercise = <<"A">>
    /\ workouts[4].sessions[1].duration = 7
    /\ Len(workouts[4].sessions) = 1
    /\ Len(workouts[1].sessions) = 1

\* C20: in the in-memory variant every entry of workouts has a duration
\* greater than 0.
C20_DurationsPositive ==
    \A i \in 1..Len(workouts) :
        \A k \in 1..Len(workouts[i].sessions) : workouts[i].sessions[k].duration > 0

\* C21: at most one request is between acquiring and releasing DATA_LOCK,
\* and it is the holder of the lock, so at most one log_workout request is
\* writing or replacing data.json.tmp; the same for USER_LOCK, user_save and
\* user.json.tmp.
C21_MutualExclusion ==
    LET Inside(t, kind) ==
            /\ req[t].kind = kind
            /\ req[t].pc \in {"save_write", "save_replace", "save_except",
                              "after_save"}
    IN  /\ \A t, u \in Threads :
            Inside(t, "log_workout") /\ Inside(u, "log_workout") => t = u
        /\ \A t \in Threads : Inside(t, "log_workout") => DATA_LOCK = t
        /\ \A t, u \in Threads :
            Inside(t, "user_save") /\ Inside(u, "user_save") => t = u
        /\ \A t \in Threads : Inside(t, "user_save") => USER_LOCK = t

\* A log_workout request has written data.json.tmp and is about to replace
\* the document while another one waits for DATA_LOCK.
C21_Witness ==
    \E t, u \in Threads :
        /\ t # u
        /\ DATA_LOCK = t
        /\ req[t].kind = "log_workout"
        /\ req[t].pc = "save_replace"
        /\ fs[Tmp(DATA_FILE)].kind = "json"
        /\ req[u].kind = "log_workout"
        /\ req[u].pc = "acquire"

\* C22: a thread holds DATA_LOCK only inside the with block of a log_workout
\* request and USER_LOCK only inside that of a user_save request, so a
\* request that has returned, by whichever path, holds no lock and no thread
\* holds both; a user_save request whose USER_LOCK is free can enter whoever
\* holds DATA_LOCK; and under fair scheduling every request completes.
C22_LocksReleased ==
    /\ [](\A t \in Threads :
            LET inside == req[t].pc \in {"save_write", "save_replace",
                                         "save_except", "after_save"}
            IN  /\ DATA_LOCK = t => req[t].kind = "log_workout" /\ inside
                /\ USER_LOCK = t => req[t].kind = "user_save" /\ inside
                /\ ~(DATA_LOCK = t /\ USER_LOCK = t)
                /\ At(t, "user_save", "acquire") /\ USER_LOCK = NoThread
                       => ENABLED UserAcquire(t))
    /\ \A t \in Threads : (req[t].pc # "idle") ~> (req[t].pc = "idle")

\* A log_workout request whose save failed has returned and DATA_LOCK is
\* free for the request that waits for it.
C22_Witness ==
    /\ response.kind = "log_workout"
    /\ response.pc = "done"
    /\ response.flash = "Failed to persist workout data (server filesystem issue)."
    /\ DATA_LOCK = NoThread
    /\ \E u \in Threads : req[u].kind = "log_workout" /\ req[u].pc = "acquire"

\* C23: a log_workout request that answers 'Added ... to ...!' had True from
\* save_data, and the workout document that save put in place has the
\* request's entry as the last element of its category; a request whose
\* save_data returned False answers with the persistence failure.
C23_SuccessOnlyWhenSaved ==
    response.kind = "log_workout" /\ response.pc = "done" =>
        LET category == get(response.form, "category", "Workout")
            file == fs[DATA_FILE]
            called == response.pre_file # None
        IN  /\ response.flash = "Added" =>
                /\ called
                /\ response.saved
                /\ file.kind = "json"
                /\ DictHas(file.doc, category)
                /\ LET sessions == DictGet(file.doc, category)
                   IN  /\ sessions # <<>>
                       /\ sessions[Len(sessions)] = response.entry
            /\ called /\ ~response.saved =>
                response.flash =
                    "Failed to persist workout data (server filesystem issue)."

\* A request has answered 'Added ... to ...!' after replacing a document
\* that already held an entry.
C23_Witness ==
    /\ response.kind = "log_workout"
    /\ response.pc = "done"
    /\ response.flash = "Added"
    /\ response.saved
    /\ response.pre_file.kind = "json"
    /\ EntryCount(fs[DATA_FILE].doc) = 2

\* C24: a table that export_pdf draws on the start page is drawn at
\* draw_y = y - est_table_height with y = (height - 80) - 16 * user_lines - 40,
\* and draw_y is at least the bottom margin 60, whatever the number of rows
\* and whether there are 0, 1 or 2 user lines.
C24_StartPageTableAboveMargin ==
    pdf.pc \in {"save", "done"} =>
        LET start == IF pdf.c.pages = <<>> THEN pdf.c.page ELSE pdf.c.pages[1]
            lines == Len(user_lines(pdf.user))
            y == (height - Pt(80)) - Pt(16) * lines - Pt(40)
        IN  /\ lines \in {0, 1, 2}
            /\ \A i \in 1..Len(start) :
                  start[i].kind = "table" =>
                      /\ start[i].y = y - Pt(18) * Len(pdf.table_data)
                      /\ start[i].y = pdf.draw_y
                      /\ start[i].y >= Pt(60)

\* The highest table that stays on the start page under two user lines: 33
\* rows and the header.
C24_Witness ==
    /\ pdf.pc = "done"
    /\ Len(pdf.c.pages) = 1
    /\ Len(user_lines(pdf.user)) = 2
    /\ Len(pdf.table_data) = 34
    /\ \E i \in 1..Len(pdf.c.pages[1]) : pdf.c.pages[1][i].kind = "table"

=============================================================================
